---- MODULE Spec2Model ----
(***************************************************************************)
(* Slot assignment, interruption/replacement and completion engine of the  *)
(* evaluation web form (heroku_form/code/form_implementation.py).          *)
(*                                                                         *)
(* The record store is the JSON file evaluation_records.json: a list of    *)
(* dictionaries, read whole and rewritten whole by every handler.  The     *)
(* audit mirror is the Results worksheet, to which rows are appended.      *)
(* Every handler is one action; its clock reading, the outcome of the      *)
(* file write, the outcome of the worksheet append and the random          *)
(* replacement are inputs chosen with \E.  A call runs from its read of    *)
(* the file to its write without another call in between, except in        *)
(* SpecRace.                                                               *)
(*                                                                         *)
(* Time is counted in half seconds, so that int(submit - start) and the    *)
(* '%H:%M:%S' formatting truncate.  time.time() is taken to be             *)
(* non-decreasing and positive.                                            *)
(*                                                                         *)
(* The specifications share the handlers: Spec (the four-slot cycle of one *)
(* participant), SpecRecord (the life of one record, with every outcome of *)
(* the collaborators), SpecReplace (repeated replacement of the paper of   *)
(* one record and its completion, without the worksheet, down to the       *)
(* exhaustion of the catalog), SpecCount (the same with the successful     *)
(* interruptions counted), SpecSession (two browser sessions going through *)
(* the pages of main, each button one action) and SpecRace (the handlers   *)
(* of two sessions, each split into its read of the file and the rest).    *)
(* SpecAuth is the client factory of auth_helper.py on its own.            *)
(***************************************************************************)
EXTENDS Integers, Sequences, FiniteSets, TLC

VARIABLES
    records,      \* content of evaluation_records.json (list of dicts), as
                  \* load_evaluation_records returns it: [] when unreadable
    audit,        \* data rows of the Results worksheet, oldest first
    now,          \* last value read from the clock, in half seconds
    completions,  \* per (participant, slot): calls of handle_completion that returned True
    last,         \* the last call, its arguments and what it returned (traced runs)
    session,      \* per browser session: st.session_state and the call in progress
    interruptions,\* per (participant, slot): calls of handle_interruption that returned True
    auth          \* the credentials at hand and what get_sheets_client made of them

vars == <<records, audit, now, completions, last, session, interruptions, auth>>

\* The variables of the engine, and those of the sessions and of the client
\* factory, which the engine does not touch.
engine == <<records, audit, now, completions, last>>
around == <<session, interruptions, auth>>

-----------------------------------------------------------------------------
(* Bounds of the model *)

\* Clock readings of the single-record and replacement runs range over
\* 1..MaxTime.
MaxTime == 3
\* Clock readings of the four-slot runs range over 1..SlotsMaxTime.
SlotsMaxTime == 1
\* Four-slot runs: interruptions are explored while the store holds fewer
\* than MaxExcluded exclusion entries in total.
MaxExcluded == 1
\* Single-record runs: the same limit for the record under study.
RecordMaxExcluded == 2
\* Replacement runs: the same; with six papers in the catalog this limit is
\* never met, and replacement goes on to the exhaustion of the catalog.
ReplaceMaxExcluded == 6
\* Four-slot and single-record runs: random.choice is explored over the
\* first MaxChoices available papers.
MaxChoices == 2
\* The worksheet takes MaxAudit data rows; a later append fails like any
\* other worksheet error.
MaxAudit == 1
\* Time units per second.
TicksPerSecond == 2
\* Counted runs: successful interruptions of a slot are counted up to
\* MaxInterruptions.
MaxInterruptions == 6
\* Browser sessions open at the same time.
MaxSessions == 2
\* Clock readings of the runs with browser sessions range over 1..SessionMaxTime.
SessionMaxTime == 2
\* Runs with browser sessions: the limit of exclusion entries in the store.
SessionMaxExcluded == 1
\* Runs with handlers at the same time: successful completions of a slot are
\* explored up to RaceMaxCompletions (an overwritten completion can be made
\* again).
RaceMaxCompletions == 2

-----------------------------------------------------------------------------
(* Python values *)

\* None, for the numeric fields (start_timestamp is set to None on line 338).
None == -1

\* dict.get(key, default)
Get(d, k, default) == IF k \in DOMAIN d THEN d[k] ELSE default

\* d[key] = value
Put(d, k, v) == (k :> v) @@ d

\* Truth value of a number or None: `if start_time`.
Truthy(x) == x # None /\ x # 0

\* int(x) of a non-negative duration given in ticks: whole seconds.
IntSeconds(ticks) ==
    IF ticks >= 0 THEN ticks \div TicksPerSecond
    ELSE 0 - ((0 - ticks) \div TicksPerSecond)

\* The position of the first element of sequence s that is in set S, else 0.
RECURSIVE FirstIn(_, _)
FirstIn(s, S) ==
    IF s = <<>> THEN 0
    ELSE IF Head(s) \in S THEN Head(s)
    ELSE FirstIn(Tail(s), S)

\* p in list
InList(x, s) == \E i \in 1..Len(s) : s[i] = x

-----------------------------------------------------------------------------
(* Seed data and call arguments *)

\* select_replacement_paper: all_papers
all_papers == <<"1", "2", "3", "4", "5", "6">>

Catalog == {all_papers[i] : i \in 1..Len(all_papers)}

TotalSlots == 4

\* A record as seeded out of band: assigned, unprocessed, not started.
Seed(p, s, paper, hs) ==
    [participant_id |-> p, slot |-> s, paper_id |-> paper, has_summary |-> hs,
     status |-> "assigned", processed |-> FALSE, start_timestamp |-> None,
     excluded_papers |-> <<>>]

\* The same without the excluded_papers key (handle_interruption creates it).
SeedBare(p, s, paper, hs) ==
    [participant_id |-> p, slot |-> s, paper_id |-> paper, has_summary |-> hs,
     status |-> "assigned", processed |-> FALSE, start_timestamp |-> None]

\* The seeded file: stored out of slot order, another participant's record
\* among them.  Slots 2 and 4 of alice lack the excluded_papers key.
SeedFile ==
    << SeedBare("alice", 2, "1", FALSE), Seed("alice", 3, "5", FALSE),
       Seed("bob", 1, "2", TRUE),        Seed("alice", 1, "3", TRUE),
       SeedBare("alice", 4, "6", TRUE) >>

\* The same file with bob's record lacking the excluded_papers key.
SeedFileBare == [SeedFile EXCEPT ![3] = SeedBare("bob", 1, "2", TRUE)]

\* evaluation_data dictionaries passed to handle_completion: all three texts,
\* and one with keys missing.
FullData == [evaluation |-> "e", action |-> "a", summary |-> "s"]
PartialData == [evaluation |-> "e2"]

-----------------------------------------------------------------------------
(* Record store *)

\* load_evaluation_records: the list stored in the file.
load_evaluation_records == records

\* Indices, in stored order, of the records of participant p.
ParticipantRecords(recs, p) ==
    SelectSeq([i \in 1..Len(recs) |-> i],
              LAMBDA i : Get(recs[i], "participant_id", "") = p)

\* key=lambda x: x.get("slot", 0)
SlotKey(r) == Get(r, "slot", 0)

\* list.sort(key=...) is stable: insert each index after the indices whose
\* key is not greater.
RECURSIVE InsertBySlot(_, _, _)
InsertBySlot(recs, sorted, i) ==
    IF sorted = <<>> THEN <<i>>
    ELSE IF SlotKey(recs[Head(sorted)]) <= SlotKey(recs[i])
         THEN <<Head(sorted)>> \o InsertBySlot(recs, Tail(sorted), i)
         ELSE <<i>> \o sorted

RECURSIVE SortBySlot(_, _)
SortBySlot(recs, idxs) ==
    IF idxs = <<>> THEN <<>>
    ELSE InsertBySlot(recs, SortBySlot(recs, SubSeq(idxs, 1, Len(idxs) - 1)),
                      idxs[Len(idxs)])

-----------------------------------------------------------------------------
(* Slot Assignment Engine *)

\* Fault: the processed flag is not looked at.
IsAssignedUnprocessed_statusOnly(r) == Get(r, "status", "") = "assigned"

\* record.get("status") == "assigned" and not record.get("processed")
IsAssignedUnprocessed(r) ==
    Get(r, "status", "") = "assigned" /\ ~Get(r, "processed", FALSE)

\* Fault: the records of the participant are scanned in stored order.
CurrentIndex_storedOrder(recs, p) ==
    FirstIn(ParticipantRecords(recs, p),
            {i \in 1..Len(recs) : IsAssignedUnprocessed(recs[i])})

\* The index of the record get_current_slot_for_participant selects, 0 if none.
CurrentIndex(recs, p) ==
    FirstIn(SortBySlot(recs, ParticipantRecords(recs, p)),
            {i \in 1..Len(recs) : IsAssignedUnprocessed(recs[i])})

\* Fault: a participant without records is not told from one whose records
\* are all done.
get_current_slot_for_participant_noParticipantCheck(recs, p, t) ==
    LET i == CurrentIndex(recs, p) IN
    IF recs = <<>>
    THEN [rec |-> <<>>, file |-> recs, saves |-> FALSE,
          report |-> "error: no evaluation records"]
    ELSE IF i = 0
    THEN [rec |-> <<>>, file |-> recs, saves |-> FALSE,
          report |-> "success: all evaluations completed"]
    ELSE LET r == Put(recs[i], "start_timestamp", t) IN
         [rec |-> <<r>>, file |-> [recs EXCEPT ![i] = r], saves |-> TRUE,
          report |-> "info: slot started"]

\* get_current_slot_for_participant(p) at clock reading t.
\*   rec:  <<the returned record>>, or <<>> for None
\*   file: the list handed to save_evaluation_records (the file is rewritten
\*         with it when the write succeeds)
\*   saves: whether save_evaluation_records is called
\*   report: the condition shown to the caller (st.error, st.success, st.info)
get_current_slot_for_participant(recs, p, t) ==
    LET i == CurrentIndex(recs, p) IN
    IF recs = <<>>
    THEN [rec |-> <<>>, file |-> recs, saves |-> FALSE,
          report |-> "error: no evaluation records"]
    ELSE IF ParticipantRecords(recs, p) = <<>>
    THEN [rec |-> <<>>, file |-> recs, saves |-> FALSE,
          report |-> "error: no records of the participant"]
    ELSE IF i = 0
    THEN [rec |-> <<>>, file |-> recs, saves |-> FALSE,
          report |-> "success: all evaluations completed"]
    ELSE LET r == Put(recs[i], "start_timestamp", t) IN
         [rec |-> <<r>>, file |-> [recs EXCEPT ![i] = r], saves |-> TRUE,
          report |-> "info: slot started"]

\* Fault: processed records are counted instead of completed ones.
CompletedCount_processed(recs, p) ==
    Cardinality({i \in 1..Len(recs) :
                    /\ Get(recs[i], "participant_id", "") = p
                    /\ Get(recs[i], "processed", FALSE)})

\* len([r for r in participant_records if r.get("status") == "completed"])
CompletedCount(recs, p) ==
    Cardinality({i \in 1..Len(recs) :
                    /\ Get(recs[i], "participant_id", "") = p
                    /\ Get(recs[i], "status", "") = "completed"})

\* Fault: with every slot completed, current_slot stays at the last slot.
get_participant_progress_lastSlot(recs, p) ==
    LET mine == ParticipantRecords(recs, p)
        i == FirstIn(SortBySlot(recs, mine),
                     {j \in 1..Len(recs) : Get(recs[j], "status", "") # "completed"})
    IN  IF mine = <<>>
        THEN [completed_slots |-> 0, current_slot |-> 1, total_slots |-> 4]
        ELSE [completed_slots |-> CompletedCount(recs, p),
              current_slot |-> IF i = 0 THEN 4 ELSE Get(recs[i], "slot", 1),
              total_slots |-> 4]

\* get_participant_progress(p)
get_participant_progress(recs, p) ==
    LET mine == ParticipantRecords(recs, p)
        i == FirstIn(SortBySlot(recs, mine),
                     {j \in 1..Len(recs) : Get(recs[j], "status", "") # "completed"})
    IN  IF mine = <<>>
        THEN [completed_slots |-> 0, current_slot |-> 1, total_slots |-> 4]
        ELSE [completed_slots |-> CompletedCount(recs, p),
              current_slot |-> IF i = 0 THEN 5 ELSE Get(recs[i], "slot", 1),
              total_slots |-> 4]

-----------------------------------------------------------------------------
(* Audit mirror *)

\* datetime.strftime('%Y-%m-%d %H:%M:%S'): the time cut to whole seconds.
FormatTime(t) == ToString(t \div TicksPerSecond)

\* str(bool)
StrBool(b) == IF b THEN "True" ELSE "False"

\* config.RESULTS_HEADERS: the header row of the results worksheet.
RESULTS_HEADERS ==
    << "participant_name", "has_summary", "paper_id",
       "start_time", "end_time", "answer_time",
       "action", "evaluation", "summary", "timestamp" >>

\* The cell of a worksheet row under a header:
\* row[RESULTS_HEADERS.index(header)].
Column(row, header) ==
    row[CHOOSE k \in 1..Len(RESULTS_HEADERS) : RESULTS_HEADERS[k] = header]

\* save_interruption_to_sheets: the row appended at clock reading t.
interruption_row(participant_id, slot, interrupted_paper, replacement_paper, t) ==
    << participant_id,
       "",
       interrupted_paper,
       FormatTime(t),
       "",
       "",
       "",
       "INTERRUPTED (replaced with " \o replacement_paper \o ")",
       "",
       FormatTime(t) >>

\* save_completion_to_sheets: the row appended at clock reading t.
completion_row(record, t) ==
    LET start_time == Get(record, "start_timestamp", None)
        submit_time == Get(record, "submit_timestamp", None)
    IN << Get(record, "participant_name", Get(record, "participant_id", "")),
          StrBool(Get(record, "has_summary", FALSE)),
          Get(record, "paper_id", ""),
          IF Truthy(start_time) THEN FormatTime(start_time) ELSE "",
          IF Truthy(submit_time) THEN FormatTime(submit_time) ELSE "",
          ToString(Get(record, "work_duration", 0)),
          Get(record, "evaluation", ""),
          Get(record, "action", ""),
          Get(record, "summary", ""),
          FormatTime(t) >>

-----------------------------------------------------------------------------
(* Interruption/Replacement Engine *)

\* Fault: the paper id is not compared.
InterruptionTarget_anyPaper(recs, p, slot, paper_id) ==
    FirstIn([i \in 1..Len(recs) |-> i],
            {i \in 1..Len(recs) :
                /\ Get(recs[i], "participant_id", "") = p
                /\ Get(recs[i], "slot", 0) = slot})

\* The first record, in stored order, matching participant, slot and paper.
InterruptionTarget(recs, p, slot, paper_id) ==
    FirstIn([i \in 1..Len(recs) |-> i],
            {i \in 1..Len(recs) :
                /\ Get(recs[i], "participant_id", "") = p
                /\ Get(recs[i], "slot", 0) = slot
                /\ Get(recs[i], "paper_id", "") = paper_id})

\* Fault: the paper id is appended without looking for it in the list.
AddExcluded_always(r, paper_id) ==
    Put(r, "excluded_papers", Append(Get(r, "excluded_papers", <<>>), paper_id))

\* if paper_id not in excluded_papers: excluded_papers.append(paper_id)
AddExcluded(r, paper_id) ==
    IF InList(paper_id, Get(r, "excluded_papers", <<>>))
    THEN r
    ELSE Put(r, "excluded_papers", Append(Get(r, "excluded_papers", <<>>), paper_id))

\* Fault: the excluded papers are not filtered out.
available_papers_unfiltered(record) == all_papers

\* available_papers of select_replacement_paper
available_papers(record) ==
    SelectSeq(all_papers,
              LAMBDA q : ~InList(q, Get(record, "excluded_papers", <<>>)))

\* select_replacement_paper(record): the papers random.choice can return; the
\* empty set when the function returns None.
select_replacement_paper(record) ==
    {available_papers(record)[k] : k \in 1..Len(available_papers(record))}

\* What the random choice inside handle_interruption(p, slot, paper_id) can
\* be, among the first n available papers ("" when the call does not get to
\* a choice).
ReplacementChoices(recs, p, slot, paper_id, n) ==
    LET i == InterruptionTarget(recs, p, slot, paper_id) IN
    IF recs = <<>> \/ i = 0 THEN {""}
    ELSE LET av == available_papers(AddExcluded(recs[i], paper_id)) IN
         IF av = <<>> THEN {""}
         ELSE {q \in select_replacement_paper(AddExcluded(recs[i], paper_id)) :
                  \E k \in 1..n : k <= Len(av) /\ av[k] = q}

\* Fault: with no paper left, the record is written with the grown list.
handle_interruption_savesExhausted(recs, p, slot, paper_id, replacement_paper, t) ==
    LET i == InterruptionTarget(recs, p, slot, paper_id) IN
    IF recs = <<>> \/ i = 0
    THEN [ok |-> FALSE, rec |-> <<>>, file |-> recs, saves |-> FALSE, row |-> <<>>]
    ELSE LET marked == AddExcluded(recs[i], paper_id) IN
         IF select_replacement_paper(marked) = {}
         THEN [ok |-> FALSE, rec |-> <<marked>>, file |-> [recs EXCEPT ![i] = marked],
               saves |-> TRUE, row |-> <<>>]
         ELSE LET r == Put(Put(Put(marked, "paper_id", replacement_paper),
                               "status", "assigned"),
                           "start_timestamp", None)
              IN [ok |-> TRUE, rec |-> <<r>>, file |-> [recs EXCEPT ![i] = r],
                  saves |-> TRUE,
                  row |-> <<interruption_row(p, slot, paper_id, replacement_paper, t)>>]

\* handle_interruption(p, slot, paper_id) with replacement_paper the random
\* choice.
\*   ok:    the value returned
\*   rec:   <<target_record as the call leaves it in memory>>, <<>> if none
\*   file:  the list handed to save_evaluation_records
\*   saves: whether save_evaluation_records is called
\*   row:   <<the row handed to the worksheet at clock reading t>>, or <<>>
handle_interruption(recs, p, slot, paper_id, replacement_paper, t) ==
    LET i == InterruptionTarget(recs, p, slot, paper_id) IN
    IF recs = <<>> \/ i = 0
    THEN [ok |-> FALSE, rec |-> <<>>, file |-> recs, saves |-> FALSE, row |-> <<>>]
    ELSE LET marked == AddExcluded(recs[i], paper_id) IN
         IF select_replacement_paper(marked) = {}
         THEN [ok |-> FALSE, rec |-> <<marked>>, file |-> [recs EXCEPT ![i] = marked],
               saves |-> FALSE, row |-> <<>>]
         ELSE LET r == Put(Put(Put(marked, "paper_id", replacement_paper),
                               "status", "assigned"),
                           "start_timestamp", None)
              IN [ok |-> TRUE, rec |-> <<r>>, file |-> [recs EXCEPT ![i] = r],
                  saves |-> TRUE,
                  row |-> <<interruption_row(p, slot, paper_id, replacement_paper, t)>>]

-----------------------------------------------------------------------------
(* Completion Engine *)

\* Fault: the processed flag of the record is not looked at.
CompletionTarget_anyProcessed(recs, p, slot) ==
    FirstIn([i \in 1..Len(recs) |-> i],
            {i \in 1..Len(recs) :
                /\ Get(recs[i], "participant_id", "") = p
                /\ Get(recs[i], "slot", 0) = slot})

\* The first record, in stored order, of (participant, slot) not yet processed.
CompletionTarget(recs, p, slot) ==
    FirstIn([i \in 1..Len(recs) |-> i],
            {i \in 1..Len(recs) :
                /\ Get(recs[i], "participant_id", "") = p
                /\ Get(recs[i], "slot", 0) = slot
                /\ ~Get(recs[i], "processed", FALSE)})

\* Fault: a null start_timestamp is not told from a number.
WorkDuration_noNullCheck(start_time, submit_time) ==
    IntSeconds(submit_time - start_time)

\* int(submit_time - start_time) if start_time else 0
WorkDuration(start_time, submit_time) ==
    IF Truthy(start_time) THEN IntSeconds(submit_time - start_time) ELSE 0

\* The target record as handle_completion rewrites it at clock reading t.
CompletedRecord(r, evaluation_data, t) ==
    LET start_time == Get(r, "start_timestamp", t) IN
    Put(Put(Put(Put(Put(Put(Put(r,
        "status", "completed"),
        "processed", TRUE),
        "submit_timestamp", t),
        "work_duration", WorkDuration(start_time, t)),
        "evaluation", Get(evaluation_data, "evaluation", "")),
        "action", Get(evaluation_data, "action", "")),
        "summary", Get(evaluation_data, "summary", ""))

\* handle_completion(p, slot, evaluation_data) at clock reading t, the file
\* write succeeding or not.
handle_completion(recs, p, slot, evaluation_data, t, saveOk) ==
    LET i == CompletionTarget(recs, p, slot) IN
    IF recs = <<>> \/ i = 0
    THEN [ok |-> FALSE, rec |-> <<>>, file |-> recs, saves |-> FALSE, row |-> <<>>]
    ELSE LET r == CompletedRecord(recs[i], evaluation_data, t) IN
         [ok |-> saveOk, rec |-> <<r>>, file |-> [recs EXCEPT ![i] = r],
          saves |-> TRUE,
          row |-> IF saveOk THEN <<completion_row(r, t)>> ELSE <<>>]

-----------------------------------------------------------------------------
(* Actions *)

Participants == {"alice", "bob", "carol"}

\* Before any call.
NoCall == [op |-> "none", participant |-> "", slot |-> 0, paper |-> "",
           ok |-> FALSE, rec |-> <<>>, write |-> "none", repeated |-> FALSE]

\* Number of exclusion entries in the store.
RECURSIVE TotalExcluded(_)
TotalExcluded(recs) ==
    IF recs = <<>> THEN 0
    ELSE Len(Get(Head(recs), "excluded_papers", <<>>)) + TotalExcluded(Tail(recs))

\* Outcomes of save_evaluation_records: the write succeeds; open() raises
\* and the file stays as it was; or open(path, 'w') has emptied the file and
\* json.dump raises before the text is complete.
SaveOutcomes == {"ok", "refused", "torn"}

\* save_evaluation_records(file): what the file holds after the write.  A
\* torn file is no JSON, and load_evaluation_records returns [] for it.
save_evaluation_records(file, outcome) ==
    CASE outcome = "ok" -> file
      [] outcome = "refused" -> records
      [] OTHER -> <<>>

\* results_sheet.append_row(row): the worksheet after the append, which fails
\* when sheetOk is false.
append_row(row, sheetOk) ==
    IF sheetOk /\ row # <<>> THEN Append(audit, row[1]) ELSE audit

\* The paper ids a session can hold for (p, slot): the paper the record has
\* now and the papers it had before they were replaced.
ShownPapers(recs, p, slot) ==
    LET S == {i \in 1..Len(recs) : /\ Get(recs[i], "participant_id", "") = p
                                   /\ Get(recs[i], "slot", 0) = slot}
    IN  IF S = {} THEN {all_papers[1]}
        ELSE UNION {{recs[i].paper_id} \cup
                    {Get(recs[i], "excluded_papers", <<>>)[k] :
                        k \in 1..Len(Get(recs[i], "excluded_papers", <<>>))} : i \in S}

\* The outcomes of the file write and of the worksheet append of one call, in
\* environment E; an outcome that cannot matter is fixed.
Outcomes(E, saves, appends) ==
    {o \in [save : SaveOutcomes, sheet : BOOLEAN] :
        /\ IF saves THEN o.save \in E.saves ELSE o.save = "ok"
        /\ IF appends THEN o.sheet \in E.sheets ELSE o.sheet
        /\ o.sheet /\ appends => Len(audit) < E.maxAudit}

\* The record of a call kept in traced runs: the operation, its arguments,
\* whether it succeeded, the record it returned or left in memory, how its
\* file write ended ("none" without a write), and whether it repeats the
\* call before it.
Trace(E, op, p, slot, paper, ok, rec, write) ==
    IF E.traced
    THEN [op |-> op, participant |-> p, slot |-> slot, paper |-> paper,
          ok |-> ok, rec |-> rec, write |-> write,
          repeated |-> /\ last.op = op /\ last.participant = p
                       /\ last.slot = slot /\ last.paper = paper]
    ELSE last

\* Fault: the form page is left whatever the handler returned.
FormPageAfter_always(success) == "continuation"

\* main(), form page: the page in st.session_state after the handler of the
\* pressed button returned success (the page is left only on success).
FormPageAfter(success) == IF success THEN "continuation" ELSE "form"

\* The call get_current_slot_for_participant(p).
GetCurrentSlotCall(E, p) ==
    \E t \in now..E.maxTime :
      \E res \in {get_current_slot_for_participant(load_evaluation_records, p, t)} :
        \E o \in Outcomes(E, res.saves, FALSE) :
            /\ records' = IF res.saves THEN save_evaluation_records(res.file, o.save)
                          ELSE records
            /\ now' = t
            /\ last' = Trace(E, "get_current_slot", p,
                             IF res.rec = <<>> THEN 0 ELSE res.rec[1].slot,
                             IF res.rec = <<>> THEN "" ELSE res.rec[1].paper_id,
                             res.rec # <<>>, res.rec,
                             IF res.saves THEN o.save ELSE "none")
            /\ UNCHANGED <<audit, completions>>

\* A call of get_current_slot_for_participant, for any participant id.
GetCurrentSlot(E) == \E p \in E.ids : GetCurrentSlotCall(E, p)

\* The call handle_interruption(p, slot, paper_id).
InterruptCall(E, p, slot, paper_id) ==
    \E t \in now..E.maxTime :
      \E repl \in ReplacementChoices(load_evaluation_records, p, slot, paper_id, E.maxChoices) :
      \E res \in {handle_interruption(load_evaluation_records, p, slot, paper_id, repl, t)} :
        \E o \in Outcomes(E, res.saves, res.row # <<>>) :
            /\ res.saves => TotalExcluded(records) < E.maxExcluded
            /\ records' = IF res.saves THEN save_evaluation_records(res.file, o.save)
                          ELSE records
            /\ audit' = append_row(res.row, o.sheet)
            /\ now' = t
            /\ last' = Trace(E, "interrupt", p, slot, paper_id, res.ok, res.rec,
                             IF res.saves THEN o.save ELSE "none")
            /\ UNCHANGED completions

\* A call of handle_interruption, for any participant id and slot and any
\* paper the slot has shown.
Interrupt(E) ==
    \E p \in E.ids, slot \in E.slots :
      \E paper_id \in ShownPapers(records, p, slot) :
        InterruptCall(E, p, slot, paper_id)

\* The call handle_completion(p, slot, data).
CompleteCall(E, p, slot, data) ==
    \E t \in now..E.maxTime :
      \E save \in E.saves :
      \E res \in {handle_completion(load_evaluation_records, p, slot, data, t,
                                     save = "ok")} :
        \E o \in Outcomes(E, FALSE, res.row # <<>>) :
            /\ save = "ok" \/ res.saves
            /\ records' = IF res.saves THEN save_evaluation_records(res.file, save)
                          ELSE records
            /\ audit' = append_row(res.row, o.sheet)
            /\ now' = t
            /\ completions' = IF res.ok
                              THEN [completions EXCEPT ![<<p, slot>>] = @ + 1]
                              ELSE completions
            /\ last' = Trace(E, "complete", p, slot, "", res.ok, res.rec,
                             IF res.saves THEN save ELSE "none")

\* A call of handle_completion, for any participant id, slot and answers.
Complete(E) ==
    \E p \in E.ids, slot \in E.slots, data \in E.datas :
        CompleteCall(E, p, slot, data)

\* No browser session, no counted interruption, no client asked for.
NoSessions == <<>>
NoInterruptions == [k \in Participants \X (1..TotalSlots) |-> 0]
NoAuth == [given |-> <<>>, result |-> <<>>]
Idle ==
    /\ session = NoSessions
    /\ interruptions = NoInterruptions
    /\ auth = NoAuth

-----------------------------------------------------------------------------
(* Specification of the four-slot cycle of one participant.  The worksheet  *)
(* is unreachable here (no handler reads it, so neither the store nor a     *)
(* returned value depends on it) and calls are not traced.                  *)

SlotsEnv ==
    [ids |-> {"alice"}, slots |-> 1..TotalSlots, datas |-> {FullData},
     maxTime |-> SlotsMaxTime, saves |-> SaveOutcomes, sheets |-> {FALSE},
     maxExcluded |-> MaxExcluded, maxAudit |-> MaxAudit, maxChoices |-> MaxChoices,
     traced |-> FALSE]

Init ==
    /\ records = SeedFile
    /\ audit = <<>>
    /\ now = 1
    /\ completions = [k \in Participants \X (1..TotalSlots) |-> 0]
    /\ last = NoCall
    /\ Idle

Next ==
    \/ GetCurrentSlot(SlotsEnv) /\ UNCHANGED around
    \/ Interrupt(SlotsEnv) /\ UNCHANGED around
    \/ Complete(SlotsEnv) /\ UNCHANGED around

Spec == Init /\ [][Next]_vars

-----------------------------------------------------------------------------
(* Specification of the life of one record: every outcome of the file write *)
(* and of the worksheet append, unknown participants and slots, stale paper *)
(* ids; calls are traced.                                                   *)

RecordEnv ==
    [ids |-> {"bob", "carol"}, slots |-> 1..2, datas |-> {FullData, PartialData},
     maxTime |-> MaxTime, saves |-> SaveOutcomes, sheets |-> BOOLEAN,
     maxExcluded |-> RecordMaxExcluded, maxAudit |-> MaxAudit,
     maxChoices |-> MaxChoices, traced |-> TRUE]

InitRecord ==
    /\ records \in {SeedFile, SeedFileBare}
    /\ audit = <<>>
    /\ now = 1
    /\ completions = [k \in Participants \X (1..TotalSlots) |-> 0]
    /\ last = NoCall
    /\ Idle

NextRecord ==
    \/ GetCurrentSlot(RecordEnv) /\ UNCHANGED around
    \/ Interrupt(RecordEnv) /\ UNCHANGED around
    \/ Complete(RecordEnv) /\ UNCHANGED around

SpecRecord == InitRecord /\ [][NextRecord]_vars

-----------------------------------------------------------------------------
(* Specification of the store alone, for one record: every clock reading,  *)
(* every random choice, replacement down to the exhaustion of the catalog; *)
(* the worksheet is unreachable (no handler reads it); calls are traced.   *)

ReplaceEnv ==
    [ids |-> {"bob"}, slots |-> {1}, datas |-> {FullData},
     maxTime |-> MaxTime, saves |-> SaveOutcomes, sheets |-> {FALSE},
     maxExcluded |-> ReplaceMaxExcluded, maxAudit |-> MaxAudit,
     maxChoices |-> Len(all_papers), traced |-> TRUE]

NextReplace ==
    \/ GetCurrentSlot(ReplaceEnv) /\ UNCHANGED around
    \/ Interrupt(ReplaceEnv) /\ UNCHANGED around
    \/ Complete(ReplaceEnv) /\ UNCHANGED around

SpecReplace == InitRecord /\ [][NextReplace]_vars

-----------------------------------------------------------------------------
(* Specification of one record with its successful interruptions counted.  *)

CountEnv ==
    [ids |-> {"bob"}, slots |-> {1}, datas |-> {FullData},
     maxTime |-> SlotsMaxTime, saves |-> SaveOutcomes, sheets |-> {FALSE},
     maxExcluded |-> ReplaceMaxExcluded, maxAudit |-> MaxAudit,
     maxChoices |-> MaxChoices, traced |-> TRUE]

\* A call of handle_interruption; a return value of True is counted.
CountedInterrupt ==
    /\ Interrupt(CountEnv)
    /\ interruptions' =
          IF last'.ok
          THEN [interruptions EXCEPT ![<<last'.participant, last'.slot>>] = @ + 1]
          ELSE interruptions
    /\ \A k \in DOMAIN interruptions : interruptions'[k] <= MaxInterruptions
    /\ UNCHANGED <<session, auth>>

NextCount ==
    \/ GetCurrentSlot(CountEnv) /\ UNCHANGED around
    \/ CountedInterrupt
    \/ Complete(CountEnv) /\ UNCHANGED around

SpecCount == Init /\ [][NextCount]_vars

-----------------------------------------------------------------------------
(* Pages of the form (main, show_continuation_choice)                       *)

\* A text as typed into a text area: a sequence of characters.
Entries == { <<>>, <<" ">>, <<" ", "x">> }

\* str.strip()
RECURSIVE lstrip(_)
lstrip(text) ==
    IF text # <<>> /\ Head(text) = " " THEN lstrip(Tail(text)) ELSE text

RECURSIVE rstrip(_)
rstrip(text) ==
    IF text # <<>> /\ text[Len(text)] = " "
    THEN rstrip(SubSeq(text, 1, Len(text) - 1)) ELSE text

strip(text) == rstrip(lstrip(text))

\* The string of a sequence of characters.
RECURSIVE Str(_)
Str(text) == IF text = <<>> THEN "" ELSE Head(text) \o Str(Tail(text))

\* The three text areas of the form.
Forms == [evaluation : Entries, action : Entries, summary : Entries]

\* Fault: the summary is not validated.
FormErrors_noSummary(form) ==
    {f \in {"action", "evaluation"} : form[f] = <<>> \/ strip(form[f]) = <<>>}

\* Lines 1178-1194: the fields for which an error is shown
\* (`not x or not x.strip()`).
FormErrors(form) ==
    {f \in {"action", "evaluation", "summary"} :
        form[f] = <<>> \/ strip(form[f]) = <<>>}

\* Lines 1199-1203: evaluation_data
evaluation_data(form) ==
    [evaluation |-> Str(strip(form.evaluation)),
     action |-> Str(strip(form.action)),
     summary |-> Str(strip(form.summary))]

\* st.session_state of a new session (line 1047), with the errors its last
\* run has shown.
NewSessionState ==
    [page |-> "consent", participant_id |-> "", eval_record |-> <<>>,
     completed_slot |-> 0, errors |-> {}]

\* Fault: the form is entered whether a record was returned or not.
enter_form_always(st, p, record_assignment) ==
    [st EXCEPT !.participant_id = p, !.eval_record = record_assignment,
               !.page = "form", !.completed_slot = 0, !.errors = {}]

\* Lines 1083-1089 and 1355-1369: with no record returned the page is kept,
\* otherwise the record becomes eval_record and the page "form" (the keys
\* but participant_id and page are dropped on the continuation page).
enter_form(st, p, record_assignment) ==
    IF record_assignment = <<>>
    THEN [st EXCEPT !.participant_id = p, !.errors = {}]
    ELSE [st EXCEPT !.participant_id = p, !.eval_record = record_assignment,
                    !.page = "form", !.completed_slot = 0, !.errors = {}]

Sessions == 1..MaxSessions

SessionEnv ==
    [ids |-> {"bob", "carol"}, slots |-> {1}, datas |-> {FullData},
     maxTime |-> SessionMaxTime, saves |-> SaveOutcomes, sheets |-> BOOLEAN,
     maxExcluded |-> SessionMaxExcluded, maxAudit |-> MaxAudit,
     maxChoices |-> 1, traced |-> TRUE]

\* Consent page, "start the evaluation" (lines 1064-1090).
StartButton(s) ==
    /\ session[s].page = "consent"
    /\ \E p \in SessionEnv.ids :
         /\ get_participant_progress(load_evaluation_records, p).completed_slots < 4
         /\ GetCurrentSlotCall(SessionEnv, p)
         /\ session' = [session EXCEPT ![s] = enter_form(@, p, last'.rec)]
    /\ UNCHANGED <<interruptions, auth>>

\* Form page, "evaluation done" (lines 1176-1211).
SubmitButton(s) ==
    /\ session[s].page = "form"
    /\ \E form \in Forms :
         LET eval_record == session[s].eval_record[1] IN
         IF FormErrors(form) # {}
         THEN /\ session' = [session EXCEPT ![s].errors = FormErrors(form)]
              /\ UNCHANGED engine
         ELSE /\ CompleteCall(SessionEnv, eval_record.participant_id,
                              eval_record.slot, evaluation_data(form))
              /\ session' = [session EXCEPT ![s] =
                    [@ EXCEPT !.page = FormPageAfter(last'.ok),
                              !.errors = {},
                              !.completed_slot =
                                  IF last'.ok THEN eval_record.slot ELSE @,
                              !.participant_id =
                                  IF last'.ok THEN eval_record.participant_id ELSE @]]
    /\ UNCHANGED <<interruptions, auth>>

\* Form page, "interrupt the evaluation" (lines 1213-1221).
InterruptButton(s) ==
    /\ session[s].page = "form"
    /\ LET eval_record == session[s].eval_record[1] IN
         /\ InterruptCall(SessionEnv, eval_record.participant_id,
                          eval_record.slot, eval_record.paper_id)
         /\ session' = [session EXCEPT ![s] =
               [@ EXCEPT !.page = FormPageAfter(last'.ok), !.errors = {}]]
    /\ UNCHANGED <<interruptions, auth>>

\* Continuation page, "start the next slot" (lines 1346-1370).
NextSlotButton(s) ==
    /\ session[s].page = "continuation"
    /\ get_participant_progress(load_evaluation_records,
                                session[s].participant_id).current_slot <= 4
    /\ GetCurrentSlotCall(SessionEnv, session[s].participant_id)
    /\ session' = [session EXCEPT ![s] =
                      enter_form(@, session[s].participant_id, last'.rec)]
    /\ UNCHANGED <<interruptions, auth>>

\* Continuation page, "that is all for today" or "study completed" (lines
\* 1372-1382).
LeaveButton(s) ==
    /\ session[s].page = "continuation"
    /\ session' = [session EXCEPT ![s].page =
          IF get_participant_progress(load_evaluation_records,
                                      session[s].participant_id).current_slot <= 4
          THEN "thank_you" ELSE "all_complete",
          ![s].errors = {}]
    /\ UNCHANGED <<engine, interruptions, auth>>

\* Thank-you and all-complete pages, "start a new session" (lines 1318-1323
\* and 1402-1407).
NewSessionButton(s) ==
    /\ session[s].page \in {"thank_you", "all_complete"}
    /\ session' = [session EXCEPT ![s] = NewSessionState]
    /\ UNCHANGED <<engine, interruptions, auth>>

InitSession ==
    /\ records = SeedFile
    /\ audit = <<>>
    /\ now = 1
    /\ completions = [k \in Participants \X (1..TotalSlots) |-> 0]
    /\ last = NoCall
    /\ session = [s \in Sessions |-> NewSessionState]
    /\ interruptions = NoInterruptions
    /\ auth = NoAuth

NextSession ==
    \E s \in Sessions :
        \/ StartButton(s)
        \/ SubmitButton(s)
        \/ InterruptButton(s)
        \/ NextSlotButton(s)
        \/ LeaveButton(s)
        \/ NewSessionButton(s)

SpecSession == InitSession /\ [][NextSession]_vars

-----------------------------------------------------------------------------
(* Spreadsheet client factory (heroku_form/code/auth_helper.py)             *)

\* The strategies of get_sheets_client, in the order of their blocks.
AuthOrder ==
    << "env_service_account", "env_oauth2", "secrets_oauth2",
       "secrets_service_account", "token_file", "key_file", "adc" >>

\* What the process finds.  For each strategy: "absent" (its env var, secret
\* or file is not there), "error" (building or refreshing the credentials
\* raises) or "ok"; GOOGLE_SERVICE_ACCOUNT_INFO can also hold OAuth2 client
\* information ("client_info"); st.secrets can be empty ("none"), raise when
\* it is looked at ("raises") or be there ("present"); google.auth.default
\* has no precondition.
Givens ==
    [env_service_account : {"absent", "client_info", "error", "ok"},
     env_oauth2 : {"absent", "error", "ok"},
     secrets : {"none", "raises", "present"},
     secrets_oauth2 : {"absent", "error", "ok"},
     secrets_service_account : {"absent", "error", "ok"},
     token_file : {"absent", "error", "ok"},
     key_file : {"absent", "error", "ok"},
     adc : {"error", "ok"}]

\* The state of a call of get_sheets_client: the strategy whose client it
\* has returned ("" while it runs on) and the strategies whose credentials
\* it has tried to build.
Started == [client |-> "", tried |-> <<>>]

\* try: build the credentials, authorize, return client / except: go on.
Attempt(st, name, found) ==
    IF found = "ok"
    THEN [client |-> name, tried |-> Append(st.tried, name)]
    ELSE [st EXCEPT !.tried = Append(@, name)]

\* Lines 37-61: GOOGLE_SERVICE_ACCOUNT_INFO.
MethodEnvServiceAccount(g, st) ==
    IF st.client # "" THEN st
    ELSE IF g.env_service_account = "absent" THEN st
    ELSE IF g.env_service_account = "client_info" THEN st
    ELSE Attempt(st, "env_service_account", g.env_service_account)

\* Lines 64-86: GOOGLE_OAUTH_CLIENT_ID and GOOGLE_OAUTH_REFRESH_TOKEN.
MethodEnvOAuth2(g, st) ==
    IF st.client # "" THEN st
    ELSE IF g.env_oauth2 = "absent" THEN st
    ELSE Attempt(st, "env_oauth2", g.env_oauth2)

\* Fault: an error of the token in st.secrets leaves the block, as if one
\* try covered both secrets.
MethodSecrets_oneTry(g, st) ==
    IF st.client # "" THEN st
    ELSE IF g.secrets # "present" THEN st
    ELSE IF g.secrets_oauth2 # "absent"
    THEN Attempt(st, "secrets_oauth2", g.secrets_oauth2)
    ELSE IF g.secrets_service_account = "absent" THEN st
    ELSE Attempt(st, "secrets_service_account", g.secrets_service_account)

\* Lines 89-139: st.secrets, the OAuth2 token first, then the service
\* account, each in its own try, inside a try around the whole block.
MethodSecrets(g, st) ==
    IF st.client # "" THEN st
    ELSE IF g.secrets # "present" THEN st
    ELSE LET token == IF g.secrets_oauth2 = "absent" THEN st
                      ELSE Attempt(st, "secrets_oauth2", g.secrets_oauth2)
         IN  IF token.client # "" THEN token
             ELSE IF g.secrets_service_account = "absent" THEN token
             ELSE Attempt(token, "secrets_service_account", g.secrets_service_account)

\* Lines 142-163: config/token.json.
MethodTokenFile(g, st) ==
    IF st.client # "" THEN st
    ELSE IF g.token_file = "absent" THEN st
    ELSE Attempt(st, "token_file", g.token_file)

\* Lines 166-179: the service account key file.
MethodKeyFile(g, st) ==
    IF st.client # "" THEN st
    ELSE IF g.key_file = "absent" THEN st
    ELSE Attempt(st, "key_file", g.key_file)

\* Lines 182-192: application default credentials.
MethodADC(g, st) ==
    IF st.client # "" THEN st
    ELSE Attempt(st, "adc", g.adc)

\* get_sheets_client(): the client returned, or the exception of line 195.
get_sheets_client(g) ==
    LET st == MethodADC(g, MethodKeyFile(g, MethodTokenFile(g, MethodSecrets(g,
                  MethodEnvOAuth2(g, MethodEnvServiceAccount(g, Started))))))
    IN  [client |-> st.client, tried |-> st.tried, raised |-> st.client = ""]

\* A call of get_sheets_client().
GetSheetsClient ==
    /\ auth.given # <<>>
    /\ auth.result = <<>>
    /\ auth' = [auth EXCEPT !.result = <<get_sheets_client(auth.given[1])>>]
    /\ UNCHANGED <<engine, session, interruptions>>

InitAuth ==
    /\ records = SeedFile
    /\ audit = <<>>
    /\ now = 1
    /\ completions = [k \in Participants \X (1..TotalSlots) |-> 0]
    /\ last = NoCall
    /\ session = NoSessions
    /\ interruptions = NoInterruptions
    /\ \E g \in Givens : auth = [given |-> <<g>>, result |-> <<>>]

NextAuth == GetSheetsClient

SpecAuth == InitAuth /\ [][NextAuth]_vars

-----------------------------------------------------------------------------
(* Handlers of two sessions run at the same time.  A handler reads the     *)
(* file (records = load_evaluation_records(), lines 227, 307, 474), works  *)
(* on the list in its memory and rewrites the file with it (lines 246,     *)
(* 341, 506); nothing keeps the handler of another session from running    *)
(* between the two steps.  The variable session holds, per session, the    *)
(* call in progress and how the session's last call ended.                 *)

RaceEnv ==
    [ids |-> {"bob", "carol"}, slots |-> {1}, datas |-> {FullData},
     maxTime |-> SlotsMaxTime, saves |-> SaveOutcomes, sheets |-> {FALSE},
     maxExcluded |-> SessionMaxExcluded, maxAudit |-> MaxAudit, maxChoices |-> 1,
     traced |-> FALSE]

\* No call made yet, and no call in progress.
NoReturn == [ok |-> FALSE, rec |-> <<>>, write |-> "none", stale |-> FALSE]
NoHandler == [op |-> "none", participant |-> "", slot |-> 0, paper |-> "",
              loaded |-> <<>>, behind |-> FALSE, returned |-> NoReturn]

\* Fault: the handler works on the file as it is when the handler writes.
Loaded_fresh(s) == records

\* The list records in the memory of the handler session s runs.
Loaded(s) == session[s].loaded

\* The first step of a handler of session s: the file is read.
ReadFile(s, op, p, slot, paper_id) ==
    /\ session[s].op = "none"
    /\ session' = [session EXCEPT ![s] =
          [op |-> op, participant |-> p, slot |-> slot, paper |-> paper_id,
           loaded |-> load_evaluation_records, behind |-> FALSE,
           returned |-> @.returned]]
    /\ UNCHANGED <<engine, interruptions, auth>>

\* The rest of a handler of session s, which came to the result res and whose
\* file write ended as save: the file is rewritten, the handler returns.  The
\* handlers of the other sessions that have read the file are behind it from
\* then on if the file was touched.
WriteFile(s, res, ok, save, t) ==
    LET write == IF res.saves THEN save ELSE "none" IN
    /\ records' = IF res.saves THEN save_evaluation_records(res.file, save)
                  ELSE records
    /\ audit' = append_row(res.row, FALSE)
    /\ now' = t
    /\ completions' = IF session[s].op = "complete" /\ ok
                      THEN [completions EXCEPT
                               ![<<session[s].participant, session[s].slot>>] = @ + 1]
                      ELSE completions
    /\ \A k \in DOMAIN completions : completions'[k] <= RaceMaxCompletions
    /\ last' = Trace(RaceEnv, session[s].op, session[s].participant,
                     session[s].slot, session[s].paper, ok, res.rec, write)
    /\ session' = [u \in Sessions |->
          IF u = s
          THEN [NoHandler EXCEPT !.returned =
                   [ok |-> ok, rec |-> res.rec, write |-> write,
                    stale |-> session[s].behind]]
          ELSE [session[u] EXCEPT !.behind =
                   @ \/ (session[u].op # "none" /\ write \in {"ok", "torn"})]]
    /\ UNCHANGED <<interruptions, auth>>

\* get_current_slot_for_participant(p) of session s, line 227.
ReadForSlot(s) ==
    \E p \in RaceEnv.ids : ReadFile(s, "get_current_slot", p, 0, "")

\* get_current_slot_for_participant of session s, lines 229 to 249.
StampAndWrite(s) ==
    /\ session[s].op = "get_current_slot"
    /\ \E t \in now..RaceEnv.maxTime :
         \E res \in {get_current_slot_for_participant(Loaded(s),
                                                      session[s].participant, t)} :
           \E save \in RaceEnv.saves :
              /\ save = "ok" \/ res.saves
              /\ WriteFile(s, [res EXCEPT !.report = ""] @@ [row |-> <<>>],
                           res.rec # <<>>, save, t)

\* handle_interruption(p, slot, paper_id) of session s, line 307.
ReadForInterruption(s) ==
    \E p \in RaceEnv.ids, slot \in RaceEnv.slots :
      \E paper_id \in ShownPapers(records, p, slot) :
         ReadFile(s, "interrupt", p, slot, paper_id)

\* handle_interruption of session s, lines 309 to 347.
ReplaceAndWrite(s) ==
    /\ session[s].op = "interrupt"
    /\ \E t \in now..RaceEnv.maxTime :
         \E repl \in ReplacementChoices(Loaded(s), session[s].participant,
                                        session[s].slot, session[s].paper,
                                        RaceEnv.maxChoices) :
         \E res \in {handle_interruption(Loaded(s), session[s].participant,
                                         session[s].slot, session[s].paper, repl, t)} :
           \E save \in RaceEnv.saves :
              /\ save = "ok" \/ res.saves
              /\ res.saves => TotalExcluded(Loaded(s)) < RaceEnv.maxExcluded
              /\ WriteFile(s, res, res.ok, save, t)

\* handle_completion(p, slot, evaluation_data) of session s, line 474.
ReadForCompletion(s) ==
    \E p \in RaceEnv.ids, slot \in RaceEnv.slots :
         ReadFile(s, "complete", p, slot, "")

\* handle_completion of session s, lines 476 to 520.
CompleteAndWrite(s) ==
    /\ session[s].op = "complete"
    /\ \E t \in now..RaceEnv.maxTime :
         \E save \in RaceEnv.saves :
         \E res \in {handle_completion(Loaded(s), session[s].participant,
                                       session[s].slot, FullData, t, save = "ok")} :
              /\ save = "ok" \/ res.saves
              /\ WriteFile(s, res, res.ok, save, t)

InitRace ==
    /\ records = SeedFile
    /\ audit = <<>>
    /\ now = 1
    /\ completions = [k \in Participants \X (1..TotalSlots) |-> 0]
    /\ last = NoCall
    /\ session = [s \in Sessions |-> NoHandler]
    /\ interruptions = NoInterruptions
    /\ auth = NoAuth

NextRace ==
    \E s \in Sessions :
        \/ ReadForSlot(s)
        \/ StampAndWrite(s)
        \/ ReadForInterruption(s)
        \/ ReplaceAndWrite(s)
        \/ ReadForCompletion(s)
        \/ CompleteAndWrite(s)

SpecRace == InitRace /\ [][NextRace]_vars

-----------------------------------------------------------------------------
(* Properties of the slot cycle *)

\* Indices of the stored records of participant p.
Mine(p) == {i \in 1..Len(records) : records[i].participant_id = p}

\* Indices in S whose record has the lowest slot number of S.
LowestSlot(S) == {i \in S : \A j \in S : records[i].slot <= records[j].slot}

\* Indices of the records of p with status assigned and processed false.
Selectable(p) ==
    {i \in Mine(p) : records[i].status = "assigned" /\ records[i].processed = FALSE}

\* Indices of the records of p whose status is not completed.
NotCompleted(p) == {i \in Mine(p) : records[i].status # "completed"}

\* Indices of the records of p whose status is completed.
Completed(p) == {i \in Mine(p) : records[i].status = "completed"}

\* What a call of get_current_slot_for_participant(p) made now would do.
Selected(p) == get_current_slot_for_participant(load_evaluation_records, p, now)

\* C1: in every reachable state, whatever the stored order and however often
\* a slot was interrupted, get_current_slot(p) returns the record of p with
\* the lowest slot number among those assigned and unprocessed (its
\* start_timestamp stamped), and None when there is none; so slot k is
\* returned only when no slot below k is assigned and unprocessed.
C1_SelectsLowestSlot ==
    \A p \in Participants :
        IF Selectable(p) = {} THEN Selected(p).rec = <<>>
        ELSE /\ Selected(p).rec # <<>>
             /\ \E i \in LowestSlot(Selectable(p)) :
                    Selected(p).rec[1] = [records[i] EXCEPT !.start_timestamp = now]
             /\ \A i \in Selectable(p) : Selected(p).rec[1].slot <= records[i].slot

\* C1 witness: slot 1 was interrupted, slots 1 and 2 are done, and the call
\* returns slot 3, which the file stores before slot 1.
C1_Witness ==
    /\ Selected("alice").rec # <<>>
    /\ Selected("alice").rec[1].slot = 3
    /\ \E i \in Mine("alice") :
          /\ records[i].slot = 1
          /\ Get(records[i], "excluded_papers", <<>>) # <<>>
          /\ \E j \in Mine("alice") : records[j].slot = 3 /\ j < i

\* C2, on one call: when handle_completion(p, s, data) returns True,
\* completed_slots of p is exactly one more than before the call.
C2_CountsOne ==
    \A p \in Participants, s \in 1..TotalSlots :
        completions'[<<p, s>>] > completions[<<p, s>>] =>
            get_participant_progress(records', p).completed_slots
              = get_participant_progress(records, p).completed_slots + 1

\* C2, afterwards: in every state after handle_completion(p, s, data) has
\* returned True, get_current_slot(p) does not return the record of slot s.
C2_NeverAgain ==
    \A p \in Participants, s \in 1..TotalSlots :
        completions[<<p, s>>] > 0 =>
            Selected(p).rec = <<>> \/ Selected(p).rec[1].slot # s

\* C2: whenever complete(p, s, data) returns true, completed_slots grows by
\* exactly one, and after any further calls get_current_slot(p) never
\* returns slot s again.
C2_CompletionCounts == [][C2_CountsOne]_vars /\ []C2_NeverAgain

\* C2 witness: slot 1 was completed and then interrupted, which set its
\* status back to assigned; get_current_slot returns another slot.
C2_Witness ==
    /\ completions[<<"alice", 1>>] = 1
    /\ \E i \in Mine("alice") : records[i].slot = 1 /\ records[i].status = "assigned"
    /\ Selected("alice").rec # <<>>

\* C3: when all 4 records of a participant are completed, get_current_slot
\* returns None and writes nothing, and get_progress returns
\* completed_slots 4 and current_slot 5.
C3_AllDone ==
    \A p \in Participants :
        (Cardinality(Mine(p)) = 4 /\ Completed(p) = Mine(p)) =>
            /\ Selected(p).rec = <<>>
            /\ ~Selected(p).saves
            /\ get_participant_progress(load_evaluation_records, p).completed_slots = 4
            /\ get_participant_progress(load_evaluation_records, p).current_slot = 5

\* C3 witness: the four records of alice are completed.
C3_Witness ==
    /\ Cardinality(Mine("alice")) = 4
    /\ Completed("alice") = Mine("alice")
    /\ \A s \in 1..TotalSlots : completions[<<"alice", s>>] = 1

\* C4: for a participant with records, get_progress returns the number of
\* its completed records, the lowest slot whose status is not completed (5
\* when there is none), and total_slots 4.
C4_Progress ==
    \A p \in Participants :
        Mine(p) # {} =>
            get_participant_progress(load_evaluation_records, p) =
                [completed_slots |-> Cardinality(Completed(p)),
                 current_slot |->
                    IF NotCompleted(p) = {} THEN 5
                    ELSE records[CHOOSE i \in LowestSlot(NotCompleted(p)) : TRUE].slot,
                 total_slots |-> 4]

\* C4 witness: two slots of alice are completed, the lowest other slot is 3,
\* and a record that was processed is not counted, its status being
\* assigned again.
C4_Witness ==
    /\ get_participant_progress(load_evaluation_records, "alice").completed_slots = 2
    /\ get_participant_progress(load_evaluation_records, "alice").current_slot = 3
    /\ \E i \in Mine("alice") : records[i].processed /\ records[i].status = "assigned"

\* C5: in every reachable state, get_progress(p).current_slot is the slot of
\* the record get_current_slot(p) would return, and is 5 exactly when
\* get_current_slot(p) would return None, for a participant with records.
C5_ProgressMatchesSelection ==
    \A p \in Participants :
        Mine(p) # {} =>
            get_participant_progress(load_evaluation_records, p).current_slot =
                IF Selected(p).rec = <<>> THEN 5 ELSE Selected(p).rec[1].slot

\* C6: no call changes the status of a completed record, and completed_slots
\* of a participant never decreases.
C6_CompletedIsTerminal ==
    [][ /\ \A i \in 1..Len(records) :
              records[i].status = "completed" =>
                  i <= Len(records') /\ records'[i].status = "completed"
        /\ \A p \in Participants :
              get_participant_progress(records', p).completed_slots
                >= get_participant_progress(records, p).completed_slots ]_vars

-----------------------------------------------------------------------------
(* Properties of a completed record *)

\* d is the whole number of seconds in a duration of the given ticks.
WholeSeconds(d, ticks) ==
    d * TicksPerSecond <= ticks /\ ticks < (d + 1) * TicksPerSecond

\* C7: in every reachable state a completed record is processed, has a
\* submit_timestamp, and has a work_duration >= 0 that is the whole number
\* of seconds from start_timestamp to submit_timestamp, and 0 when
\* start_timestamp is null.
C7_CompletedRecord ==
    \A i \in 1..Len(records) :
        records[i].status = "completed" =>
            /\ records[i].processed = TRUE
            /\ "submit_timestamp" \in DOMAIN records[i]
            /\ records[i].submit_timestamp # None
            /\ "work_duration" \in DOMAIN records[i]
            /\ records[i].work_duration >= 0
            /\ IF records[i].start_timestamp = None
               THEN records[i].work_duration = 0
               ELSE WholeSeconds(records[i].work_duration,
                                 records[i].submit_timestamp - records[i].start_timestamp)

\* C7 witness: handle_completion has just returned True for a record that
\* was never started; it is stored completed with work_duration 0.
C7_Witness ==
    /\ last.op = "complete" /\ last.ok
    /\ \E i \in Mine(last.participant) :
          /\ records[i] = last.rec[1]
          /\ records[i].status = "completed"
          /\ records[i].start_timestamp = None
          /\ records[i].submit_timestamp > 1
          /\ records[i].work_duration = 0

-----------------------------------------------------------------------------
(* Properties of a call that matches no record *)

\* No stored record has this participant, slot and paper.
NoMatch(p, slot, paper_id) ==
    ~\E i \in 1..Len(records) :
        /\ records[i].participant_id = p
        /\ records[i].slot = slot
        /\ records[i].paper_id = paper_id

\* C8: a call interrupt(p, slot, paper_id) made when no record matches
\* participant, slot and paper returns False and changes neither the file
\* nor the worksheet.
C8_NoMatchNoChange ==
    [][ (last'.op = "interrupt" /\ NoMatch(last'.participant, last'.slot, last'.paper))
          => (~last'.ok /\ records' = records /\ audit' = audit) ]_vars

\* C8 witness: the last call interrupted a paper that had been replaced on
\* that slot before; it returned False, and the worksheet holds a row.
C8_Witness ==
    /\ last.op = "interrupt" /\ ~last.ok /\ last.rec = <<>>
    /\ audit # <<>>
    /\ \E i \in Mine(last.participant) :
          /\ records[i].slot = last.slot
          /\ InList(last.paper, Get(records[i], "excluded_papers", <<>>))

-----------------------------------------------------------------------------
(* Properties of replacement *)

\* No element occurs twice in sequence s.
NoDuplicates(s) == \A i, j \in 1..Len(s) : s[i] = s[j] => i = j

\* C9: excluded_papers never holds a paper id twice: not in a stored record,
\* not in the record an interruption leaves in memory, and not after adding
\* to a stored record a paper id that it holds already.
C9_ExcludedIsASet ==
    /\ \A i \in 1..Len(records) :
          /\ NoDuplicates(Get(records[i], "excluded_papers", <<>>))
          /\ \A q \in Catalog :
                NoDuplicates(AddExcluded(records[i], q).excluded_papers)
    /\ last.op = "interrupt" /\ last.rec # <<>> =>
          NoDuplicates(Get(last.rec[1], "excluded_papers", <<>>))

\* C9 witness: the same interruption was made twice and succeeded twice (the
\* file write of the first failed); the paper is excluded once.
C9_Witness ==
    /\ last.op = "interrupt" /\ last.ok /\ last.repeated
    /\ \E i \in Mine(last.participant) :
          /\ records[i] = last.rec[1]
          /\ Len(records[i].excluded_papers) > 1
          /\ Cardinality({k \in 1..Len(records[i].excluded_papers) :
                             records[i].excluded_papers[k] = last.paper}) = 1

\* The elements of sequence s.
Elems(s) == {s[k] : k \in 1..Len(s)}

\* C10: after a successful interrupt the paper of the record is a catalog
\* paper outside the record's excluded_papers, hence not the interrupted
\* paper; and no stored record has its own paper in its excluded_papers.
C10_ReplacementIsFresh ==
    /\ last.op = "interrupt" /\ last.ok =>
          /\ last.rec[1].paper_id \in Catalog \ Elems(last.rec[1].excluded_papers)
          /\ last.rec[1].paper_id # last.paper
          /\ last.paper \in Elems(last.rec[1].excluded_papers)
    /\ \A i \in 1..Len(records) :
          records[i].paper_id \notin Elems(Get(records[i], "excluded_papers", <<>>))

\* C10 witness: the paper of a slot was replaced as often as the limit
\* allows, and the last replacement is stored.
C10_Witness ==
    /\ last.op = "interrupt" /\ last.ok
    /\ \E i \in Mine(last.participant) :
          /\ records[i] = last.rec[1]
          /\ Len(records[i].excluded_papers) = Len(all_papers) - 1

-----------------------------------------------------------------------------
(* Properties of exhaustion *)

\* Indices of the stored records with this participant, slot and paper.
Matching(p, slot, paper_id) ==
    {i \in 1..Len(records) : /\ records[i].participant_id = p
                             /\ records[i].slot = slot
                             /\ records[i].paper_id = paper_id}

\* Record i has used up the catalog: every catalog paper is excluded for it
\* or is its present paper.
Exhausted(i) ==
    Catalog \subseteq
        Elems(Get(records[i], "excluded_papers", <<>>)) \cup {records[i].paper_id}

\* C11, the call: on a record that has used up the catalog,
\* handle_interruption returns False, does not write the file and hands no
\* row to the worksheet.
C11_ExhaustedCall ==
    \A p \in Participants, slot \in 1..TotalSlots, q \in Catalog :
        \A i \in Matching(p, slot, q) :
            Exhausted(i) =>
                \A repl \in ReplacementChoices(load_evaluation_records, p, slot, q,
                                               Len(all_papers)) :
                    /\ ~handle_interruption(load_evaluation_records, p, slot, q,
                                            repl, now).ok
                    /\ ~handle_interruption(load_evaluation_records, p, slot, q,
                                            repl, now).saves
                    /\ handle_interruption(load_evaluation_records, p, slot, q,
                                           repl, now).row = <<>>

\* C11, the step: an interruption of a record that has used up the catalog
\* returns False and leaves the file and the worksheet as they were.
C11_ExhaustedStep ==
    (/\ last'.op = "interrupt"
     /\ \E i \in Matching(last'.participant, last'.slot, last'.paper) : Exhausted(i))
        => (~last'.ok /\ records' = records /\ audit' = audit)

\* C11: once repeated interruption of one slot has used up the six catalog
\* papers, a further interruption attempt returns false, the stored record
\* is what it was before the call, and no audit row is appended.
C11_ExhaustionFails == []C11_ExhaustedCall /\ [][C11_ExhaustedStep]_vars

\* C11 witness: five replacements are stored, and the interruption of the
\* sixth paper has failed twice in a row, the call leaving six exclusions in
\* memory and five in the file.
C11_Witness ==
    /\ last.op = "interrupt" /\ ~last.ok /\ last.rec # <<>> /\ last.repeated
    /\ Len(last.rec[1].excluded_papers) = Len(all_papers)
    /\ \E i \in Matching(last.participant, last.slot, last.paper) :
          /\ Exhausted(i)
          /\ Len(records[i].excluded_papers) = Len(all_papers) - 1

-----------------------------------------------------------------------------
(* Frame of an interruption *)

\* C12: every call of handle_interruption, successful or not, leaves the
\* number of stored records and the participant_id, slot and has_summary of
\* every record unchanged, and the stored excluded_papers of every record
\* keep all the papers they held.
C12_InterruptFrame ==
    [][ last'.op = "interrupt" =>
          /\ Len(records') = Len(records)
          /\ \A i \in 1..Len(records) :
                i <= Len(records') =>
                  /\ records'[i].participant_id = records[i].participant_id
                  /\ records'[i].slot = records[i].slot
                  /\ records'[i].has_summary = records[i].has_summary
                  /\ Elems(Get(records[i], "excluded_papers", <<>>))
                       \subseteq Elems(Get(records'[i], "excluded_papers", <<>>)) ]_vars

-----------------------------------------------------------------------------
(* Effect of a successful interruption *)

\* The text the worksheet row of an interruption gives for the replacement.
Marker(replacement_paper) == "INTERRUPTED (replaced with " \o replacement_paper \o ")"

\* Stored record i after the step is the assigned/unprocessed record i
\* interrupted on last'.paper, with the replacement the call chose.
Replaced(i) ==
    /\ i <= Len(records')
    /\ records'[i] = last'.rec[1]
    /\ records'[i].paper_id # last'.paper
    /\ records'[i].status = "assigned"
    /\ records'[i].start_timestamp = None

\* C13: a call of handle_interruption that returns True for an assigned,
\* unprocessed record stores the record with the replacement paper, status
\* assigned and start_timestamp null, appends exactly one worksheet row
\* carrying the interrupted and the replacement paper, and the next
\* get_current_slot returns that slot with the replacement paper and a
\* fresh start_timestamp.
C13_InterruptEffect ==
    [][ \A i \in Matching(last'.participant, last'.slot, last'.paper) :
          (/\ last'.op = "interrupt" /\ last'.ok
           /\ records[i].status = "assigned" /\ ~records[i].processed)
          => /\ Replaced(i)
             /\ Len(audit') = Len(audit) + 1
             /\ SubSeq(audit', 1, Len(audit)) = audit
             /\ \E k \in 1..Len(audit'[Len(audit')]) :
                    audit'[Len(audit')][k] = last'.paper
             /\ \E k \in 1..Len(audit'[Len(audit')]) :
                    audit'[Len(audit')][k] = Marker(last'.rec[1].paper_id)
             /\ get_current_slot_for_participant(records', last'.participant, now').rec
                  = <<[last'.rec[1] EXCEPT !.start_timestamp = now']>> ]_vars

-----------------------------------------------------------------------------
(* Target of a completion *)

\* Stored record i is the record of (p, slot) that is not processed yet.
Uncompleted(i, p, slot) ==
    /\ records[i].participant_id = p
    /\ records[i].slot = slot
    /\ ~Get(records[i], "processed", FALSE)

\* C14: handle_completion works on a record of (p, slot) that is not
\* processed, whatever its paper: a call that finds none (unknown
\* participant or slot, slot completed before) returns False, writes nothing
\* and leaves the file and the worksheet as they are, so a second completion
\* of a slot keeps the stored evaluation, action, summary, submit_timestamp
\* and work_duration; a call whose write went through changed no record but
\* an unprocessed one of (p, slot).
C14_CompletionTarget ==
    [][ last'.op = "complete" =>
          /\ (\A i \in 1..Len(records) :
                 ~Uncompleted(i, last'.participant, last'.slot))
             => /\ ~last'.ok
                /\ last'.write = "none"
                /\ records' = records
                /\ audit' = audit
          /\ last'.rec # <<>>
             => \E i \in 1..Len(records) :
                  /\ Uncompleted(i, last'.participant, last'.slot)
                  /\ last'.rec[1].paper_id = records[i].paper_id
          /\ last'.write # "torn"
             => /\ Len(records') = Len(records)
                /\ \A i \in 1..Len(records) :
                     records'[i] # records[i]
                     => Uncompleted(i, last'.participant, last'.slot) ]_vars

\* A slot was completed, and the same completion called again was refused
\* with the stored answers in place.
C14_Witness ==
    /\ last.op = "complete" /\ last.repeated /\ ~last.ok
    /\ completions[<<last.participant, last.slot>>] = 1
    /\ audit # <<>>
    /\ \E i \in 1..Len(records) :
          /\ records[i].participant_id = last.participant
          /\ records[i].slot = last.slot
          /\ Get(records[i], "processed", FALSE)
          /\ Get(records[i], "evaluation", "") = "e"
          /\ Get(records[i], "submit_timestamp", None) # None

-----------------------------------------------------------------------------
(* Failure of the file write *)

\* C15: when the file write of a completion reports failure,
\* handle_completion returns False, no completion row is appended, the
\* stored collection is what it was before the call, and the form page is
\* kept.
C15_CompletionWriteFails ==
    [][ (last'.op = "complete" /\ last'.write \in {"refused", "torn"})
        => /\ ~last'.ok
           /\ audit' = audit
           /\ records' = records
           /\ FormPageAfter(last'.ok) = "form" ]_vars

\* C16: when the file write of an interruption reports failure,
\* handle_interruption returns False, no interruption row is appended, and
\* the form page is kept.
C16_InterruptionWriteFails ==
    [][ (last'.op = "interrupt" /\ last'.write \in {"refused", "torn"})
        => /\ ~last'.ok
           /\ audit' = audit
           /\ FormPageAfter(last'.ok) = "form" ]_vars

-----------------------------------------------------------------------------
(* Commit of a completion *)

\* C17: when handle_completion returns True, the file holds the record as
\* completed, with every field of the completion written by the one rewrite,
\* and the worksheet has received its completion row; a failed file write or
\* a failed append therefore never comes with a return value of True.
C17_CompletionCommits ==
    [][ (last'.op = "complete" /\ last'.ok)
        => /\ last'.write = "ok"
           /\ \E i \in 1..Len(records') :
                 /\ records'[i] = last'.rec[1]
                 /\ records'[i].status = "completed"
                 /\ records'[i].processed
                 /\ records'[i].submit_timestamp = now'
                 /\ \A f \in {"evaluation", "action", "summary", "work_duration"} :
                        f \in DOMAIN records'[i]
           /\ Len(audit') = Len(audit) + 1
           /\ audit'[Len(audit')] = completion_row(last'.rec[1], now') ]_vars

-----------------------------------------------------------------------------
(* A participant without records *)

\* The conditions get_current_slot_for_participant reports for "nothing is
\* assigned" (st.error), as opposed to "everything is done" (st.success).
NoAssignmentFound ==
    {"error: no evaluation records", "error: no records of the participant"}

\* C18: for a participant without records get_current_slot returns None and
\* reports that no record was found, get_progress returns 0 completed slots
\* and current slot 1, and the file is not written; for a participant whose
\* four records are completed the reported condition is "all completed" and
\* the progress is 4 completed slots and current slot 5, so the two outcomes
\* differ.
C18_NoRecordsIsNotAllDone ==
    \A p \in Participants :
        Mine(p) = {} =>
            /\ Selected(p).rec = <<>>
            /\ Selected(p).report \in NoAssignmentFound
            /\ ~Selected(p).saves
            /\ Selected(p).file = records
            /\ get_participant_progress(load_evaluation_records, p)
                 = [completed_slots |-> 0, current_slot |-> 1, total_slots |-> 4]
            /\ \A q \in Participants :
                 (Cardinality(Mine(q)) = 4 /\ Completed(q) = Mine(q)) =>
                    /\ Selected(q).report = "success: all evaluations completed"
                    /\ <<Selected(q).rec, Selected(q).report>>
                         # <<Selected(p).rec, Selected(p).report>>
                    /\ get_participant_progress(load_evaluation_records, q)
                         # get_participant_progress(load_evaluation_records, p)

\* The four records of alice are completed while carol has none, and the
\* two are reported differently.
C18_Witness ==
    /\ Mine("carol") = {}
    /\ Selected("carol").report = "error: no records of the participant"
    /\ Cardinality(Mine("alice")) = 4
    /\ Completed("alice") = Mine("alice")
    /\ Selected("alice").report = "success: all evaluations completed"

-----------------------------------------------------------------------------
(* Columns of the worksheet rows *)

\* C19: the row a completion appends has one value for each of the ten
\* headers of RESULTS_HEADERS, in their order: the participant, has_summary,
\* the paper, start, end and answer time, the action text under "action",
\* the evaluation text under "evaluation", the summary and the time of the
\* append.
C19_CompletionRowColumns ==
    [][ (last'.op = "complete" /\ Len(audit') = Len(audit) + 1)
        => LET row == audit'[Len(audit')]
               rec == last'.rec[1]
           IN  /\ Len(row) = Len(RESULTS_HEADERS)
               /\ Len(row) = 10
               /\ Column(row, "participant_name") = rec.participant_id
               /\ Column(row, "has_summary") = StrBool(rec.has_summary)
               /\ Column(row, "paper_id") = rec.paper_id
               /\ Column(row, "start_time")
                    = IF Truthy(Get(rec, "start_timestamp", None))
                      THEN FormatTime(rec.start_timestamp) ELSE ""
               /\ Column(row, "end_time") = FormatTime(rec.submit_timestamp)
               /\ Column(row, "answer_time") = ToString(rec.work_duration)
               /\ Column(row, "action") = rec.action
               /\ Column(row, "evaluation") = rec.evaluation
               /\ Column(row, "summary") = rec.summary
               /\ Column(row, "timestamp") = FormatTime(now') ]_vars

\* C20: the row an interruption appends has one value for each of the ten
\* headers of RESULTS_HEADERS, in their order: the marker "INTERRUPTED
\* (replaced with X)" under "action", nothing under "evaluation" and
\* "summary", and the interrupted paper under "paper_id".
C20_InterruptionRowColumns ==
    [][ (last'.op = "interrupt" /\ Len(audit') = Len(audit) + 1)
        => LET row == audit'[Len(audit')]
           IN  /\ Len(row) = Len(RESULTS_HEADERS)
               /\ Len(row) = 10
               /\ Column(row, "participant_name") = last'.participant
               /\ Column(row, "paper_id") = last'.paper
               /\ Column(row, "action") = Marker(last'.rec[1].paper_id)
               /\ Column(row, "evaluation") = ""
               /\ Column(row, "summary") = "" ]_vars

-----------------------------------------------------------------------------
(* Frame of a call *)

\* Indices of the stored records a step changes.
Changed == {i \in 1..Len(records) : i > Len(records') \/ records'[i] # records[i]}

\* Record r with field f taken out of the comparison.
Without(r, f) == [k \in DOMAIN r \ {f} |-> r[k]]

\* C25: a call of get_current_slot, interrupt or complete for participant p
\* changes at most one stored record, a record of p with the slot of the
\* call, and no record is added or removed; get_current_slot changes
\* nothing but start_timestamp of the record it returns, and complete
\* leaves paper_id, has_summary, slot, excluded_papers and start_timestamp
\* of its record as they were.
C25_OneRecordChanges ==
    [][ last'.op \in {"get_current_slot", "interrupt", "complete"}
        => /\ Len(records') = Len(records)
           /\ Cardinality(Changed) <= 1
           /\ \A i \in Changed :
                /\ records[i].participant_id = last'.participant
                /\ records[i].slot = last'.slot
                /\ last'.op = "get_current_slot"
                   => /\ records'[i] = last'.rec[1]
                      /\ Without(records'[i], "start_timestamp")
                           = Without(records[i], "start_timestamp")
                /\ last'.op = "complete"
                   => \A f \in {"paper_id", "has_summary", "slot",
                                "excluded_papers", "start_timestamp"} :
                        /\ f \in DOMAIN records'[i] <=> f \in DOMAIN records[i]
                        /\ f \in DOMAIN records[i] => records'[i][f] = records[i][f]
      ]_vars

-----------------------------------------------------------------------------
(* Papers of one participant *)

\* C28: the records of a participant, seeded with pairwise distinct papers,
\* hold pairwise distinct papers after every sequence of calls: a
\* replacement is never the paper of another slot of the participant.
C28_DistinctPapers ==
    \A p \in Participants :
        \A i, j \in Mine(p) :
            i # j => records[i].paper_id # records[j].paper_id

-----------------------------------------------------------------------------
(* The client factory as a decision table *)

\* What strategy k can do with what the process finds: a secret counts only
\* when st.secrets is there, OAuth2 client information is no service account.
Usable(g, k) ==
    LET name == AuthOrder[k] IN
    IF name \in {"secrets_oauth2", "secrets_service_account"} /\ g.secrets # "present"
    THEN "absent"
    ELSE IF g[name] = "client_info" THEN "absent" ELSE g[name]

\* The positions of the strategies that would succeed.
Succeeding(g) == {k \in 1..Len(AuthOrder) : Usable(g, k) = "ok"}

\* C26: get_sheets_client returns the client of the first strategy, in the
\* order env service account, env OAuth2, secrets OAuth2 token, secrets
\* service account, token file, key file, default credentials, that
\* succeeds; the strategies before it that were present failed and were
\* tried in that order, none after it is tried; the exception is raised
\* exactly when no strategy succeeds.
C26_FirstSuccessWins ==
    auth.result # <<>> =>
        LET g == auth.given[1]
            r == auth.result[1]
            upTo == IF Succeeding(g) = {} THEN Len(AuthOrder)
                    ELSE CHOOSE k \in Succeeding(g) : \A j \in Succeeding(g) : k <= j
        IN  /\ r.raised <=> Succeeding(g) = {}
            /\ r.raised <=> r.client = ""
            /\ Succeeding(g) # {} => r.client = AuthOrder[upTo]
            /\ r.tried = SelectSeq(SubSeq(AuthOrder, 1, upTo),
                                   LAMBDA name : \E k \in 1..upTo :
                                       /\ AuthOrder[k] = name
                                       /\ Usable(g, k) # "absent")

\* The token in st.secrets failed and the service account in st.secrets won
\* over a token file that would have succeeded too.
C26_Witness ==
    /\ auth.result # <<>>
    /\ auth.given[1].secrets = "present"
    /\ auth.given[1].secrets_oauth2 = "error"
    /\ auth.given[1].token_file = "ok"
    /\ auth.result[1].client = "secrets_service_account"
    /\ auth.result[1].tried = <<"secrets_oauth2", "secrets_service_account">>

-----------------------------------------------------------------------------
(* Validation of the form *)

\* The answers handle_completion was last called with are all filled in.
C21_CallsAreFilledIn ==
    /\ (last.op = "complete" /\ last.rec # <<>>)
       => \A f \in {"evaluation", "action", "summary"} :
             last.rec[1][f] \notin {"", " "}
    /\ \A i \in 1..Len(records) :
          records[i].status = "completed"
          => \A f \in {"evaluation", "action", "summary"} :
                Get(records[i], f, "") \notin {"", " "}

\* A run of the form page that ends with validation errors has called no
\* handler and keeps page and record.
C21_RejectedStep ==
    \A s \in Sessions :
        (session'[s] # session[s] /\ session'[s].errors # {})
        => /\ UNCHANGED engine
           /\ session[s].page = "form"
           /\ session'[s].page = "form"
           /\ session'[s].eval_record = session[s].eval_record

\* C21: a submission of the form page in which action, evaluation or summary
\* is empty or only whitespace is rejected before anything is changed:
\* handle_completion is not called, file and worksheet stay as they are, and
\* the page stays "form"; handle_completion is called only with the three
\* texts filled in.
C21_BlankIsRejected == []C21_CallsAreFilledIn /\ [][C21_RejectedStep]_vars

\* A submission with a whitespace-only summary was rejected on the form
\* page, before any completion.
C21_Witness ==
    \E s \in Sessions :
        /\ session[s].page = "form"
        /\ session[s].errors = {"summary"}
        /\ last.op = "get_current_slot"
        /\ \A i \in 1..Len(records) : records[i].status # "completed"
        /\ audit = <<>>

-----------------------------------------------------------------------------
(* Failed calls and the pages *)

\* The session shows the form for the record the last call was made for.
OnRecordOfLastCall(s) ==
    /\ session[s].page = "form"
    /\ session[s].eval_record[1].participant_id = last'.participant
    /\ session[s].eval_record[1].slot = last'.slot

\* C22: a call of handle_completion or handle_interruption that returns
\* False leaves every session on its page with its eval_record (the
\* participant stays on the same record and can retry); a session leaves the
\* form page only for "continuation", only after a call for its record that
\* returned True, and while it stays on the form its eval_record is kept.
C22_FailureKeepsTheForm ==
    [][ /\ (last' # last /\ last'.op \in {"complete", "interrupt"} /\ ~last'.ok)
           => \A s \in Sessions :
                 /\ session'[s].page = session[s].page
                 /\ session'[s].eval_record = session[s].eval_record
        /\ \A s \in Sessions :
              /\ (session[s].page = "form" /\ session'[s].page # "form")
                 => /\ session'[s].page = "continuation"
                    /\ last'.op \in {"complete", "interrupt"}
                    /\ last'.ok
                    /\ OnRecordOfLastCall(s)
              /\ (session[s].page = "form" /\ session'[s].page = "form")
                 => session'[s].eval_record = session[s].eval_record
              /\ (session[s].page # "continuation" /\ session'[s].page = "continuation")
                 => session[s].page = "form" ]_vars

\* A completion or an interruption failed for a session on the form page,
\* and the session is still on the form with its record.
C22_Witness ==
    \E s \in Sessions :
        /\ session[s].page = "form"
        /\ last.op \in {"complete", "interrupt"}
        /\ ~last.ok
        /\ last.participant = session[s].eval_record[1].participant_id
        /\ last.slot = session[s].eval_record[1].slot

-----------------------------------------------------------------------------
(* The start stamp of a session *)

\* The start_timestamp values the file recs holds for the slot of record r.
StoredStamps(recs, r) ==
    {Get(recs[i], "start_timestamp", None) :
        i \in {j \in 1..Len(recs) : /\ recs[j].participant_id = r.participant_id
                                     /\ recs[j].slot = r.slot}}

\* C24: a session calls get_current_slot only when it enters the form page
\* and keeps the returned record as eval_record while it stays there: when
\* the form is entered, the start_timestamp stored for the slot is the one
\* of eval_record, and no run of the session on the form page stamps the
\* slot again or changes eval_record.
C24_OneStampPerEntry ==
    [][ \A s \in Sessions :
          /\ (session[s].page # "form" /\ session'[s].page = "form")
             => /\ last'.op = "get_current_slot"
                /\ session'[s].eval_record = last'.rec
                /\ StoredStamps(records', session'[s].eval_record[1])
                     = {session'[s].eval_record[1].start_timestamp}
          /\ (session[s].page = "form" /\ session'[s].page = "form"
              /\ session'[s] # session[s])
             => /\ session'[s].eval_record = session[s].eval_record
                /\ ~(last'.op = "get_current_slot" /\ last' # last)
                /\ StoredStamps(records', session[s].eval_record[1])
                     = StoredStamps(records, session[s].eval_record[1]) ]_vars

-----------------------------------------------------------------------------
(* The record behind the form page *)

\* A session on the form page holds a record of its participant that was
\* assigned and unprocessed when it was returned and carries a start stamp.
C29_FormHasRecord ==
    \A s \in Sessions :
        session[s].page = "form"
        => /\ session[s].eval_record # <<>>
           /\ session[s].eval_record[1].participant_id = session[s].participant_id
           /\ Truthy(Get(session[s].eval_record[1], "start_timestamp", None))
           /\ IsAssignedUnprocessed(session[s].eval_record[1])

\* The form page is entered, and eval_record is set, only with the record
\* get_current_slot has just returned for the participant of the session.
C29_EntryStep ==
    \A s \in Sessions :
        (\/ session[s].page # "form" /\ session'[s].page = "form"
         \/ session'[s].eval_record \notin {session[s].eval_record, <<>>})
        => /\ last'.op = "get_current_slot"
           /\ last'.rec # <<>>
           /\ last'.participant = session'[s].participant_id
           /\ session'[s].eval_record = last'.rec
           /\ session'[s].page = "form"

\* C29: whenever a session shows the form page, its eval_record is a record
\* get_current_slot returned for its participant_id, with a start_timestamp
\* and, when it was returned, status assigned and not processed; a call of
\* get_current_slot that returns None (no records, all completed) does not
\* lead to the form page.
C29_FormOnlyForAssigned == []C29_FormHasRecord /\ [][C29_EntryStep]_vars

\* One session is on the form page while another one, whose start found
\* nothing to evaluate, was kept on the consent page.
C29_Witness ==
    \E s, u \in Sessions :
        /\ session[s].page = "form"
        /\ session[u].page = "consent"
        /\ session[u].participant_id # ""
        /\ session[u].eval_record = <<>>
        /\ last.op = "get_current_slot"
        /\ last.rec = <<>>
        /\ last.participant = session[u].participant_id

-----------------------------------------------------------------------------
(* The paper of a completion *)

\* C30: a completion submitted from the form page and reported successful
\* is stored, and written to the worksheet, with the paper the form showed
\* (the paper_id of the eval_record of the submitting session), also when
\* another session of the participant has interrupted the slot since the
\* form was entered.
C30_CompletesTheShownPaper ==
    [][ \A s \in Sessions :
          (/\ session[s].page = "form" /\ session'[s].page = "continuation"
           /\ last'.op = "complete" /\ last'.ok)
          => /\ last'.rec[1].paper_id = session[s].eval_record[1].paper_id
             /\ \A i \in 1..Len(records') :
                   (/\ records'[i].participant_id = last'.participant
                    /\ records'[i].slot = last'.slot
                    /\ records'[i].status = "completed")
                   => records'[i].paper_id = session[s].eval_record[1].paper_id
             /\ Len(audit') > Len(audit)
                => Column(audit'[Len(audit')], "paper_id")
                     = session[s].eval_record[1].paper_id ]_vars

-----------------------------------------------------------------------------
(* Bound on the interruptions *)

\* C27: of the calls of handle_interruption for one slot, seeded with a
\* paper of the six-paper catalog and no exclusions, at most five return
\* True, and the slot is completed at most once; the record an interruption
\* leaves, the slot not being completed yet, is still assigned and
\* unprocessed, so that it can be completed.
C27_BoundedInterruptions ==
    /\ \A k \in DOMAIN interruptions :
          /\ interruptions[k] <= Len(all_papers) - 1
          /\ completions[k] <= 1
    /\ (/\ last.op = "interrupt" /\ last.ok
        /\ completions[<<last.participant, last.slot>>] = 0)
       => IsAssignedUnprocessed(last.rec[1])

-----------------------------------------------------------------------------
(* Handlers at the same time: the lost update *)

\* The step in which the handler of session s rewrites the file.
Rewrites(s) ==
    /\ session[s].op # "none"
    /\ session'[s].op = "none"
    /\ session'[s].returned.write = "ok"

\* The keys of its record a handler assigns: line 245; lines 316 to 338;
\* lines 489 to 503.
Assigns(op) ==
    CASE op = "get_current_slot" -> {"start_timestamp"}
      [] op = "interrupt" -> {"excluded_papers", "paper_id", "status", "start_timestamp"}
      [] op = "complete" -> {"status", "processed", "submit_timestamp", "work_duration",
                             "evaluation", "action", "summary"}
      [] OTHER -> {}

\* C23: a handler reads the whole file and rewrites the whole file without a
\* lock or a version.  The file a handler has written is the list the
\* handler read, with the one record the handler worked on replaced, and
\* that record is the record read with the keys the handler assigns: whatever
\* another session wrote between the read and the write is overwritten.  A
\* handler with no write of another session between its read and its write
\* changes one record of the file at most.  (The state in which a completion
\* that returned True is gone from the file is C23_Witness.)
C23_LastWriterWins ==
    [][\A s \in Sessions :
          Rewrites(s) =>
            /\ Len(records') = Len(session[s].loaded)
            /\ \A j \in 1..Len(records') :
                  records'[j] # session[s].loaded[j]
                     => /\ <<records'[j]>> = session'[s].returned.rec
                        /\ \A f \in DOMAIN session[s].loaded[j] :
                              records'[j][f] # session[s].loaded[j][f]
                                 => f \in Assigns(session[s].op)
            /\ ~session'[s].returned.stale
                  => /\ Len(records') = Len(records)
                     /\ Cardinality({j \in 1..Len(records) :
                                        records'[j] # records[j]}) <= 1]_vars

\* Session s completed a slot: handle_completion returned True after it wrote
\* the file.  Then the handler of the other session, which had read the file
\* before, wrote it: the record of the slot is assigned and unprocessed again
\* and holds no answer.
C23_Witness ==
    \E s \in Sessions, u \in Sessions :
       /\ s # u
       /\ session[s].returned.ok
       /\ session[s].returned.write = "ok"
       /\ session[s].returned.rec # <<>>
       /\ session[s].returned.rec[1].status = "completed"
       /\ session[u].returned.write = "ok"
       /\ session[u].returned.stale
       /\ \E j \in 1..Len(records) :
             /\ records[j].participant_id = session[s].returned.rec[1].participant_id
             /\ records[j].slot = session[s].returned.rec[1].slot
             /\ IsAssignedUnprocessed(records[j])
             /\ Get(records[j], "evaluation", "") = ""
             /\ <<records[j]>> = session[u].returned.rec

====
